---- MODULE Spec2Model ----
(***************************************************************************)
(* A model of the SYEP data explorer: the data API of syep_api.py          *)
(* (class SYEP_API) and the dashboard callbacks of syep_explorer.py.       *)
(*                                                                         *)
(* A pandas DataFrame is a record [columns, rows]; a row carries its index *)
(* label and one cell per column.  A cell is a missing value (NaN), a      *)
(* string (a sequence of characters) or a number.  A Python argument is    *)
(* None, a scalar (a cell value) or a list of cell values.                 *)
(***************************************************************************)
EXTENDS Integers, Sequences, FiniteSets, TLC

\* Largest number of data rows of a loaded CSV.
MaxRows == 3

\* The largest number of distinct values in the column of a chart's x axis.
MaxTicks == 20

(***************************************************************************)
(* Characters and strings.  A string is a sequence of one-character        *)
(* strings; CharOrder lists the characters of the model by code point.     *)
(***************************************************************************)
CharOrder == <<" ", ".", "0", "1", "2", "3", "4", "5", "6", "7", "8", "9", "a", "b", "n">>

Digits == <<"0", "1", "2", "3", "4", "5", "6", "7", "8", "9">>

Whitespace == {" "}

Ord(ch) == CHOOSE i \in 1..Len(CharOrder) : CharOrder[i] = ch

\* s < t in Python's string order (lexicographic by code point).
RECURSIVE StrLess(_, _)
StrLess(s, t) ==
    IF t = <<>> THEN FALSE
    ELSE IF s = <<>> THEN TRUE
    ELSE IF Ord(Head(s)) < Ord(Head(t)) THEN TRUE
    ELSE IF Ord(Head(s)) > Ord(Head(t)) THEN FALSE
    ELSE StrLess(Tail(s), Tail(t))

RECURSIVE lstrip(_)
lstrip(s) == IF s # <<>> /\ Head(s) \in Whitespace THEN lstrip(Tail(s)) ELSE s

RECURSIVE rstrip(_)
rstrip(s) ==
    IF s # <<>> /\ s[Len(s)] \in Whitespace
    THEN rstrip(SubSeq(s, 1, Len(s) - 1))
    ELSE s

\* str.lstrip alone: what a one-sided trim would do.
strip_left_only(s) == lstrip(s)

\* str.strip(): remove leading and trailing whitespace.
strip(s) == rstrip(lstrip(s))

\* str(n) for a non-negative int.
RECURSIVE IntToStr(_)
IntToStr(n) ==
    IF n < 10 THEN <<Digits[n + 1]>>
    ELSE IntToStr(n \div 10) \o <<Digits[(n % 10) + 1]>>

(***************************************************************************)
(* Cells and Python values.                                                *)
(***************************************************************************)
NaN == [kind |-> "nan", s |-> <<>>, n |-> 0]
Str(s) == [kind |-> "str", s |-> s, n |-> 0]
Num(n) == [kind |-> "num", s |-> <<>>, n |-> n]

isinstance_str(x) == x.kind = "str"

isna(x) == x.kind = "nan"

None == [tag |-> "none", v |-> NaN, l |-> <<>>]
Scalar(x) == [tag |-> "scalar", v |-> x, l |-> <<>>]
List(l) == [tag |-> "list", v |-> NaN, l |-> l]

isinstance_list(a) == a.tag = "list"

\* The test "x is not None" in place of the truth value of x.
is_not_none(a) == a.tag # "none"

\* Python truthiness: None, "", 0 and [] are falsy; NaN is a non-zero float.
Truthy(a) ==
    CASE a.tag = "none" -> FALSE
      [] a.tag = "list" -> a.l # <<>>
      [] OTHER -> CASE a.v.kind = "str" -> a.v.s # <<>>
                    [] a.v.kind = "num" -> a.v.n # 0
                    [] OTHER -> TRUE

(***************************************************************************)
(* The Dataset.                                                            *)
(***************************************************************************)
FilterColumns ==
    <<"gender", "race", "second_language_spoken_at_home", "adult_live_with",
      "job_format", "program", "hours_worked_per_week", "daily_work_type">>

\* The columns of the CSV: the eight categorical columns and one more.
Columns == FilterColumns \o <<"household_items_paid_for">>

ColumnSet == {Columns[i] : i \in 1..Len(Columns)}

FilterColumnSet == {FilterColumns[i] : i \in 1..Len(FilterColumns)}

ColumnPos(col) == CHOOSE i \in 1..Len(Columns) : Columns[i] = col

\* A DataFrame: the column names in order, and the rows in order, each with
\* its index label and its cells.
DataFrame(columns, rows) == [columns |-> columns, rows |-> rows]

\* SYEP_API.syep before load_syep (the class attribute syep = None).
NoFrame == DataFrame(<<>>, <<>>)

\* The cells a CSV column of strings, and one of numbers, can hold.  An empty
\* field is read as NaN, so no string cell is empty before normalisation.
StrCells == {NaN, Str(<<"a">>), Str(<<" ", "a", " ">>), Str(<<" ">>)}

NumCells == {NaN, Num(0), Num(10)}

\* The columns a loaded CSV varies freely: the first filter column and the
\* numeric-looking one.
VaryColumns == {"gender", "hours_worked_per_week"}

\* The clean categorical value of row i in a column that is not the varied one.
BaseCell(col, i) ==
    IF ((IF col \in ColumnSet THEN ColumnPos(col) ELSE 0) + i) % 2 = 0
    THEN Str(<<"a">>)
    ELSE Str(<<"b">>)

\* pd.read_csv of a CSV with the given header: rows are labelled 0..n-1
\* (here 1..n); column vc holds pat.
read_csv(columns, n, vc, pat) ==
    DataFrame(columns,
              [i \in 1..n |->
                 [idx |-> i,
                  c |-> [col \in {columns[k] : k \in 1..Len(columns)} |->
                           IF col = vc THEN pat[i] ELSE BaseCell(col, i)]]])

\* df[col] as the sequence of its cells.
Series(df, col) == [i \in 1..Len(df.rows) |-> df.rows[i].c[col]]

\* The dtype pandas infers for a column: object when it holds a string,
\* float64 when it holds numbers and NaN, int64 when it holds only ints.
dtype(df, col) ==
    IF df.rows = <<>> \/ \E i \in 1..Len(df.rows) : df.rows[i].c[col].kind = "str"
    THEN "object"
    ELSE IF \E i \in 1..Len(df.rows) : isna(df.rows[i].c[col])
         THEN "float64"
         ELSE "int64"

\* lambda x: x.strip() if isinstance(x, str) else x
strip_if_str(x) == IF isinstance_str(x) THEN Str(strip(x.s)) ELSE x

\* self.syep.map(lambda ...): DataFrame.map applies the function to every cell.
prepare_data(df) ==
    [df EXCEPT !.rows =
        [i \in 1..Len(df.rows) |->
            [df.rows[i] EXCEPT !.c =
                [col \in DOMAIN df.rows[i].c |-> strip_if_str(df.rows[i].c[col])]]]]

(***************************************************************************)
(* Distinct-value enumeration: col.dropna().astype(str).unique(), sorted.  *)
(***************************************************************************)
dropna(series) == SelectSeq(series, LAMBDA x : ~isna(x))

\* str(x) of a cell of a column of the given dtype (a float prints as "10.0").
astype_str(x, dt) ==
    CASE x.kind = "str" -> x.s
      [] x.kind = "nan" -> <<"n", "a", "n">>
      [] OTHER -> IF dt = "float64" THEN IntToStr(x.n) \o <<".", "0">>
                  ELSE IntToStr(x.n)

\* Series.unique(): the distinct values in order of first appearance.
RECURSIVE unique(_)
unique(seq) ==
    IF seq = <<>> THEN <<>>
    ELSE LET front == SubSeq(seq, 1, Len(seq) - 1)
             last == seq[Len(seq)]
         IN IF \E i \in 1..Len(front) : front[i] = last
            THEN unique(front)
            ELSE Append(unique(front), last)

\* Insert string x into the ascending sequence seq, after its equals.
RECURSIVE insort(_, _)
insort(seq, x) ==
    IF seq = <<>> THEN <<x>>
    ELSE IF StrLess(x, Head(seq)) THEN <<x>> \o seq
    ELSE <<Head(seq)>> \o insort(Tail(seq), x)

\* The list left in order of first appearance.
unsorted(seq) == seq

\* sorted(list of str): ascending, stable.
RECURSIVE sorted(_)
sorted(seq) ==
    IF seq = <<>> THEN <<>>
    ELSE insort(sorted(SubSeq(seq, 1, Len(seq) - 1)), seq[Len(seq)])

\* The body shared by the eight get_unique_* methods.
get_unique(df, col) ==
    LET kept == dropna(Series(df, col))
        strs == [i \in 1..Len(kept) |-> astype_str(kept[i], dtype(df, col))]
    IN sorted(unique(strs))

get_unique_genders(df) == get_unique(df, "gender")
get_unique_races(df) == get_unique(df, "race")
get_unique_second_languages(df) == get_unique(df, "second_language_spoken_at_home")
get_unique_adult_live_with(df) == get_unique(df, "adult_live_with")
get_unique_job_formats(df) == get_unique(df, "job_format")
get_unique_programs(df) == get_unique(df, "program")
get_unique_hours_worked(df) == get_unique(df, "hours_worked_per_week")
get_unique_daily_work(df) == get_unique(df, "daily_work_type")

\* The method that enumerates a given filter column.
GetUniqueOf(df, col) ==
    CASE col = "gender" -> get_unique_genders(df)
      [] col = "race" -> get_unique_races(df)
      [] col = "second_language_spoken_at_home" -> get_unique_second_languages(df)
      [] col = "adult_live_with" -> get_unique_adult_live_with(df)
      [] col = "job_format" -> get_unique_job_formats(df)
      [] col = "program" -> get_unique_programs(df)
      [] col = "hours_worked_per_week" -> get_unique_hours_worked(df)
      [] col = "daily_work_type" -> get_unique_daily_work(df)

(***************************************************************************)
(* filter_data.                                                            *)
(***************************************************************************)
\* if not isinstance(x, list): x = [x], which also wraps None ([None] matches
\* the missing cells only).
to_list_unguarded(a) == IF ~isinstance_list(a) THEN List(<<a.v>>) ELSE a

\* if x and not isinstance(x, list): x = [x]
to_list(a) == IF Truthy(a) /\ ~isinstance_list(a) THEN List(<<a.v>>) ELSE a

\* Equality with the first accepted value only.
isin_first(x, values) == values # <<>> /\ values[1] = x

\* Series.isin(values) for one cell: equality with some element (NaN matches NaN).
isin(x, values) == \E i \in 1..Len(values) : values[i] = x

\* df[col][df[col].isin(values)]: the rows that pass, as the one column.
boolean_index_series(df, col, values) ==
    [columns |-> <<col>>,
     rows |-> SelectSeq(df.rows, LAMBDA r : \E i \in 1..Len(values) : values[i] = r.c[col])]

\* df[df[col].isin(values)]: the rows that pass, in order, all columns kept.
boolean_index(df, col, values) ==
    [df EXCEPT !.rows = SelectSeq(df.rows, LAMBDA r : isin(r.c[col], values))]

\* if x: filtered_data = filtered_data[filtered_data[col].isin(x)]
filter_step(filtered, col, a) ==
    IF Truthy(a) THEN boolean_index(filtered, col, a.l) ELSE filtered

\* filter_data with every step indexing self.syep instead of filtered_data:
\* the last active predicate alone decides.
filter_data_from_syep(df, a) ==
    LET lst == [col \in FilterColumnSet |->
                  IF (CASE a[col].tag = "none" -> FALSE
                        [] a[col].tag = "list" -> a[col].l # <<>>
                        [] OTHER -> a[col].v # Str(<<>>) /\ a[col].v # Num(0))
                     /\ a[col].tag # "list"
                  THEN <<a[col].v>> ELSE a[col].l]
        step(prev, col) ==
            IF lst[col] # <<>>
            THEN [df EXCEPT !.rows = SelectSeq(df.rows,
                     LAMBDA r : \E i \in 1..Len(lst[col]) : lst[col][i] = r.c[col])]
            ELSE prev
    IN step(step(step(step(step(step(step(step(df,
         "gender"), "race"), "second_language_spoken_at_home"), "adult_live_with"),
         "job_format"), "program"), "hours_worked_per_week"), "daily_work_type")

\* filter_data(gender, race, ...): a maps each of the eight parameters to
\* the value passed for it (None when left out).
filter_data(df, a) ==
    LET gender == to_list(a["gender"])
        race == to_list(a["race"])
        second_language_spoken_at_home == to_list(a["second_language_spoken_at_home"])
        adult_live_with == to_list(a["adult_live_with"])
        job_format == to_list(a["job_format"])
        program == to_list(a["program"])
        hours_worked_per_week == to_list(a["hours_worked_per_week"])
        daily_work_type == to_list(a["daily_work_type"])
        f0 == df
        f1 == filter_step(f0, "gender", gender)
        f2 == filter_step(f1, "race", race)
        f3 == filter_step(f2, "second_language_spoken_at_home", second_language_spoken_at_home)
        f4 == filter_step(f3, "adult_live_with", adult_live_with)
        f5 == filter_step(f4, "job_format", job_format)
        f6 == filter_step(f5, "program", program)
        f7 == filter_step(f6, "hours_worked_per_week", hours_worked_per_week)
        f8 == filter_step(f7, "daily_work_type", daily_work_type)
    IN f8

\* filter_data returns self.syep itself, not a copy, when no predicate is
\* active: filtered_data = self.syep and no step rebinds it.
returns_syep(a) == \A col \in FilterColumnSet : ~Truthy(to_list(a[col]))

\* The test "df is None" in place of df.empty: false of every DataFrame.
is_none_frame(df) == FALSE

\* DataFrame.empty
empty(df) == df.rows = <<>> \/ df.columns = <<>>

\* Every parameter of filter_data left at its default.
NoArgs == [col \in FilterColumnSet |-> None]

(***************************************************************************)
(* create_plot and the pyplot state it works on.                           *)
(***************************************************************************)
PlotTypes == {"Countplot", "Stacked Bar Plot", "Heatmap"}

\* Names plt.colormaps() holds: the ones the dashboard offers.
KnownColormaps == {"Blues", "Reds", "Greens", "coolwarm", "viridis", "plasma"}

\* A colormap argument: a string, or some other object.
CmapName(name) == [isstr |-> TRUE, name |-> name]
NotAString == [isstr |-> FALSE, name |-> ""]

\* A cross-tabulation: the distinct row keys, the distinct column keys and
\* the count of every pair.
NoCrosstab == [index |-> {}, columns |-> {}, count |-> <<>>]

\* pd.crosstab(data[x], data[y], dropna=False): every row is counted, the
\* missing value being a key like any other.
crosstab_keep_missing(data, x_axis, y_axis) ==
    LET index == {data.rows[i].c[x_axis] : i \in 1..Len(data.rows)}
        columns == {data.rows[i].c[y_axis] : i \in 1..Len(data.rows)}
    IN [index |-> index,
        columns |-> columns,
        count |-> [p \in index \X columns |->
                     Cardinality({i \in 1..Len(data.rows) :
                                    /\ data.rows[i].c[x_axis] = p[1]
                                    /\ data.rows[i].c[y_axis] = p[2]})]]

\* pd.crosstab(data[x], data[y]): rows with a missing key are left out; the
\* keys are the remaining distinct values, the counts their co-occurrences.
crosstab(data, x_axis, y_axis) ==
    LET kept == SelectSeq(data.rows, LAMBDA r : ~isna(r.c[x_axis]) /\ ~isna(r.c[y_axis]))
        index == {kept[i].c[x_axis] : i \in 1..Len(kept)}
        columns == {kept[i].c[y_axis] : i \in 1..Len(kept)}
    IN [index |-> index,
        columns |-> columns,
        count |-> [p \in index \X columns |->
                     Cardinality({i \in 1..Len(kept) :
                                    /\ kept[i].c[x_axis] = p[1]
                                    /\ kept[i].c[y_axis] = p[2]})]]

\* The figure plt.gcf() returns: its kind, the colormap used, the number of
\* categories along the x axis, the x tick locations in half units (a bar of
\* a count or stacked bar plot sits at 0, 1, 2, .., a heatmap cell is centred
\* at 0.5, 1.5, ..) and the rotation of the tick labels.
NoFigure == [plot_type |-> "none", cmap |-> "", ncat |-> 0, xticks |-> <<>>, rotation |-> 0]

\* The given name, whatever it is, as when the check is left out.
choose_cmap_unchecked(heatmap_cmap) == heatmap_cmap.name

\* The colormap a heatmap is drawn with.
choose_cmap(heatmap_cmap) ==
    IF heatmap_cmap.isstr /\ heatmap_cmap.name \in KnownColormaps
    THEN heatmap_cmap.name
    ELSE "Blues"

\* plt.clf(): clears the current figure, opening one when none is open.
clf(figs) == IF figs = 0 THEN 1 ELSE figs

\* The x tick locations of k bars (0, 1, .., k-1) and of k heatmap cells
\* (0.5, 1.5, .., k-0.5), in half units.
bar_ticks(k) == [i \in 1..k |-> 2 * (i - 1)]

cell_ticks(k) == [i \in 1..k |-> 2 * (i - 1) + 1]

\* create_plot(plot_type, x_axis=.., y_axis=.., data=.., heatmap_cmap=..) with
\* figs figures open: the figure returned, the aggregate built, whether the
\* plotting library raised (it does on an empty aggregate), and the number
\* of figures open afterwards.  plt.clf() opens a figure when none is open,
\* plt.figure() opens one more, DataFrame.plot() a further one.
create_plot(plot_type, x_axis, y_axis, data, heatmap_cmap, figs) ==
    LET cleared == clf(figs)
        opened == cleared + 1
        crosstab_data == crosstab(data, x_axis, y_axis)
        categories == {x \in {data.rows[i].c[x_axis] : i \in 1..Len(data.rows)} : ~isna(x)}
    IN CASE plot_type = "Countplot" ->
              [figure |-> [plot_type |-> plot_type, cmap |-> "",
                           ncat |-> Cardinality(categories),
                           xticks |-> bar_ticks(Cardinality(categories)), rotation |-> 0],
               crosstab_data |-> NoCrosstab, raised |-> FALSE, nfigs |-> opened]
         [] plot_type = "Stacked Bar Plot" ->
              IF crosstab_data.index = {}
              THEN [figure |-> NoFigure, crosstab_data |-> crosstab_data,
                    raised |-> TRUE, nfigs |-> opened]
              ELSE [figure |-> [plot_type |-> plot_type, cmap |-> "",
                                ncat |-> Cardinality(crosstab_data.index),
                                xticks |-> bar_ticks(Cardinality(crosstab_data.index)),
                                rotation |-> 0],
                    crosstab_data |-> crosstab_data, raised |-> FALSE, nfigs |-> opened + 1]
         [] plot_type = "Heatmap" ->
              IF crosstab_data.index = {}
              THEN [figure |-> NoFigure, crosstab_data |-> crosstab_data,
                    raised |-> TRUE, nfigs |-> opened]
              ELSE [figure |-> [plot_type |-> plot_type, cmap |-> choose_cmap(heatmap_cmap),
                                ncat |-> Cardinality(crosstab_data.columns),
                                xticks |-> cell_ticks(Cardinality(crosstab_data.columns)),
                                rotation |-> 0],
                    crosstab_data |-> crosstab_data, raised |-> FALSE, nfigs |-> opened]

(***************************************************************************)
(* The dashboard callbacks generate_table and generate_plot.               *)
(***************************************************************************)
\* The allow-list of generate_table ("Include all data?").
additional_columns ==
    <<"Program",
      "Summer Job Experience: Did you work at the same location/employer last summer?",
      "Summer Job Experience: What category best describes what you did this summer?",
      "Summer Job Experience: On average, how many hours did you work each week this summer?",
      "Summer Job Experience: What type of daily work did you do this summer?",
      "Summer Job Experience: Overall, how well did the job match with your skills and interests?",
      "Summer Job Experience: How likely are you to consider a career in the type of work you did this summer?",
      "Summer Job Experience: If you had a job supervisor, how supportive were they overall?",
      "Summer Job Experience: Did your supervisor - Properly train for your summer job?",
      "Summer Job Experience: Did your supervisor - Help you understand your role at your summer job?",
      "Summer Job Experience: Did your supervisor - Help you understand what was expected of you for your summer job?",
      "Summer Job Experience: Did your supervisor - Give you feedback on how you were doing at your summer job?",
      "Summer Job Experience: Did your supervisor - Help you think about how to achieve your educational or career goals?",
      "Summer Job Experience: Did your supervisor - Make you feel comfortable talking about challenges outside of work?",
      "Summer Job Experience: Overall, how would you rate your job experience this summer?",
      "Summer Job Experience: Now that the summer is over - Do you have someone you can use as a job reference?",
      "Summer Job Experience: Now that the summer is over - Do you have an adult you worked with that you consider a mentor?",
      "Summer Job Experience: Now that the summer is over - Would you recommend this job to a friend?",
      "Summer Job Experience: Now that the summer is over - Do you feel better prepared to enter a new job?",
      "Summer Job Experience: Which of the following industries are you most interested in pursuing as a career?",
      "Summer Job Experience: What do you plan to do after high school?",
      "Job Search Skills: Indicate whether you have completed any of the following - I have prepared, edited, and proofread my resume.",
      "Job Search Skills: Indicate whether you have completed any of the following - I have prepared, edited, and proofread my cover letter.",
      "Job Search Skills: Indicate whether you have completed any of the following - I have asked an adult (e.g. family member, teacher, or neighbor) to serve as a reference for me when I apply for jobs.",
      "Job Search Skills: Indicate whether you have completed any of the following - I have searched for jobs online using a job board (e.g. Monster, Indeed, Career Builder, Snagajob, Zip Recruiter)",
      "Job Search Skills: Indicate whether you have completed any of the following  - I have talked with my family, neighbors, teachers, and friends, about the types of jobs I want -- and have asked for their help finding job opportunities.",
      "Job Search Skills: Indicate whether you have completed any of the following  - I have developed some answer to the usual questions asked during an interview (e.g. what are your strength and weaknesses?)",
      "Job Search Skills: Indicate whether you have completed any of the following - I have practiced my interviewing skills with an adult (e.g. family member, teacher, or neighbor).",
      "Work Habits: Indicate how much you agree with each of the following phrases - I am usually on time for school or work.",
      "Work Habits: Indicate how much you agree with each of the following phrases - I am rarely absent from school or call in sick.",
      "Work Habits: Indicate how much you agree with each of the following phrases - I usually meet my deadlines and hand in assignments on time.",
      "Work Habits: Indicate how much you agree with each of the following phrases - I often keep track of my assignments and rarely forget to hand things in.",
      "Work Habits: Indicate how much you agree with each of the following phrases - I usually work independently without a lot of supervision.",
      "Work Habits: Indicate how much you agree with each of the following phrases - I often ask for help if directions are not clear.",
      "Work Habits: Indicate how much you agree with each of the following phrases - I often work in teams with other people.",
      "Communication Skills: Indicate how much you agree with each of the following phrases - I rarely get upset or lose my temper with other people.",
      "Communication Skills: Indicate how much you agree with each of the following phrases - I rarely get upset when supervisors or teachers correct my mistakes.",
      "Communication Skills: Indicate how much you agree with each of the following phrases - I rarely get into arguments with my friends.",
      "Communication Skills: Indicate how much you agree with each of the following phrases - I rarely get into arguments with my parents or teachers.",
      "Communication Skills: Indicate how much you agree with each of the following phrases - I rarely have difficulty resolving arguments with people.",
      "Communication Skills: Indicate how much you agree with each of the following phrases - I often make eye contact when having a conversation.",
      "Job Search Skills: What skills do you feel that you need to develop and improve to meet your future career goals?",
      "Job Search Skills: Which of the following best describe how you typically manage your money?",
      "Job Search Skills: Do you have any items that you regularly help pay for in your household?",
      "Relationships: Over the past 30 days, how often did you feel that EACH of the following was a positive role model for you?  - Parent",
      "Relationships: Over the past 30 days, how often did you feel that EACH of the following was a positive role model for you?  - Brother or sister",
      "Relationships: Over the past 30 days, how often did you feel that EACH of the following was a positive role model for you?  - Other family member (grandparent, aunt/uncle)",
      "Relationships: Over the past 30 days, how often did you feel that EACH of the following was a positive role model for you?  - Teacher",
      "Relationships: Over the past 30 days, how often did you feel that EACH of the following was a positive role model for you?  - Coach",
      "Relationships: Over the past 30 days, how often did you feel that EACH of the following was a positive role model for you?  - Clergy (Minister/Priest, Imam, Rabbi)",
      "Relationships: Over the past 30 days, how often did you feel that EACH of the following was a positive role model for you?  - Job Supervisor",
      "Relationships: Over the past 30 days, how often did you feel that you had a lot to contribute to EACH of the following groups? - Family",
      "Relationships: Over the past 30 days, how often did you feel that you had a lot to contribute to EACH of the following groups?  Friends",
      "Relationships: Over the past 30 days, how often did you feel that you had a lot to contribute to EACH of the following groups? - Co-workers",
      "Relationships: Over the past 30 days, how often did you feel that you had a lot to contribute to EACH of the following groups? - People in your neighborhood",
      "Relationships: Over the past 30 days, how often did you feel that you had a lot to contribute to EACH of the following groups? - People in your school",
      "Relationships: Over the past 30 days, how often did you feel that you had a lot to contribute to EACH of the following groups? - People in your place of worship",
      "Well-being: Over the last two weeks, how often have you been bothered by the following problems? - Feeling nervous, anxious, or on edge",
      "Well-being: Over the last two weeks, how often have you been bothered by the following problems? - Not being able to stop or control worrying",
      "Well-being: Over the last two weeks, how often have you been bothered by the following problems? - Feeling down, depressed or hopeless",
      "Well-being: Over the last two weeks, how often have you been bothered by the following problems? - Little interest or pleasure in doing things",
      "Demographics: Gender",
      "Demographics: Race",
      "Demographics: Is there another language other than English that is regularly spoken in your home?",
      "Demographics: What best describes the adult guardian that you primarily live with?">>

\* The header of a CSV that carries the survey's questions under their
\* full wording as well.
SurveyColumns == Columns \o additional_columns

\* list.remove(x): the list without the first occurrence of x (the loop
\* calls it only with an entry the list holds).
remove(lst, x) ==
    IF \A k \in 1..Len(lst) : lst[k] # x THEN lst
    ELSE LET first == CHOOSE k \in 1..Len(lst) :
                          lst[k] = x /\ \A j \in 1..(k - 1) : lst[j] # x
         IN SubSeq(lst, 1, first - 1) \o SubSeq(lst, first + 1, Len(lst))

\* for column in lst: if column == x: lst.remove(column)
\*                     elif column == y: lst.remove(column)
\* The iteration is by position i over the list as it shrinks.
RECURSIVE remove_selected(_, _, _, _)
remove_selected(lst, i, x_axis_selection, y_axis_selection) ==
    IF i > Len(lst) THEN lst
    ELSE IF lst[i] = x_axis_selection \/ lst[i] = y_axis_selection
    THEN remove_selected(remove(lst, lst[i]), i + 1, x_axis_selection, y_axis_selection)
    ELSE remove_selected(lst, i + 1, x_axis_selection, y_axis_selection)

\* A table to display: the column names, and per row its index label and
\* its cells in column order (two columns may carry the same name).
Table(columns, rows) == [columns |-> columns, rows |-> rows]

NoTable == Table(<<>>, <<>>)

\* df[columns]
Project(df, columns) ==
    Table(columns,
          [i \in 1..Len(df.rows) |->
             [idx |-> df.rows[i].idx,
              cells |-> [k \in 1..Len(columns) |-> df.rows[i].c[columns[k]]]]])

\* DataFrame.dropna(): the rows without a missing cell.
dropna_rows(t) ==
    [t EXCEPT !.rows =
        SelectSeq(t.rows, LAMBDA r : \A k \in 1..Len(r.cells) : ~isna(r.cells[k]))]

\* pd.concat([left, right], axis=1) where the index of left is part of the
\* index of right.  The frames are joined on the union of their indexes:
\* the labels of left in their order, then the labels only right has; the
\* cells of left are missing in a row whose label left does not have.
concat(left, right) ==
    LET has(idx) == \E j \in 1..Len(left.rows) : left.rows[j].idx = idx
        of_right(idx) == right.rows[CHOOSE i \in 1..Len(right.rows) : right.rows[i].idx = idx]
        joined == [j \in 1..Len(left.rows) |->
                     [idx |-> left.rows[j].idx,
                      cells |-> left.rows[j].cells \o of_right(left.rows[j].idx).cells]]
        missing == SelectSeq(right.rows, LAMBDA r : ~has(r.idx))
        added == [i \in 1..Len(missing) |->
                    [idx |-> missing[i].idx,
                     cells |-> [k \in 1..Len(left.columns) |-> NaN] \o missing[i].cells]]
    IN Table(left.columns \o right.columns, joined \o added)

\* df after df.dropna(subset = columns, inplace = True): the rows with a
\* missing value in one of the columns are dropped from df itself.
after_dropna_inplace(df, columns) ==
    [df EXCEPT !.rows =
        SelectSeq(df.rows, LAMBDA r : \A k \in 1..Len(columns) : ~isna(r.c[columns[k]]))]

\* df after df[columns].dropna(): the indexing and dropna() build new
\* frames, df itself is left as it was.
after_dropna(df, columns) == df

InColumns(df, col) == \E k \in 1..Len(df.columns) : df.columns[k] = col

\* generate_table(x_axis_selection, y_axis_selection, <eight selections>,
\* include_all_data_checkbox): what it returns ("placeholder", "table", or
\* "error" when a column lookup raises KeyError), with the filtered view
\* as the call leaves it and the table built.
generate_table(df, x_axis_selection, y_axis_selection, selections, include_all_data_checkbox) ==
    LET filtered == filter_data(df, selections)
        columns == <<x_axis_selection, y_axis_selection>>
        local == dropna_rows(Project(filtered, columns))
        after == after_dropna(filtered, columns)
        additional == remove_selected(additional_columns, 1, x_axis_selection, y_axis_selection)
    IN IF empty(filtered)
       THEN [output |-> "placeholder", filtered_data |-> filtered, local |-> NoTable]
       ELSE IF ~InColumns(df, x_axis_selection) \/ ~InColumns(df, y_axis_selection)
       THEN [output |-> "error", filtered_data |-> filtered, local |-> NoTable]
       ELSE IF include_all_data_checkbox /\ additional # <<>>
       THEN IF \A k \in 1..Len(additional) : InColumns(after, additional[k])
            THEN [output |-> "table", filtered_data |-> after,
                  local |-> concat(local, Project(after, additional))]
            ELSE [output |-> "error", filtered_data |-> after, local |-> local]
       ELSE [output |-> "table", filtered_data |-> after, local |-> local]

\* int(t) of a location given in half units.
int_of(t) == t \div 2

SeqMin(seq) == CHOOSE x \in {seq[i] : i \in 1..Len(seq)} : \A i \in 1..Len(seq) : x <= seq[i]

SeqMax(seq) == CHOOSE x \in {seq[i] : i \in 1..Len(seq)} : \A i \in 1..Len(seq) : x >= seq[i]

\* np.arange(lo, hi)
arange(lo, hi) == [i \in 1..(hi - lo) |-> lo + i - 1]

\* The whole list, as when the thinning is left out.
keep_all(locations, skip) == locations

\* [loc for i, loc in enumerate(locations) if i % skip == 0]
thin(locations, skip) ==
    LET kept == SelectSeq([i \in 1..Len(locations) |-> i], LAMBDA i : (i - 1) % skip = 0)
    IN [k \in 1..Len(kept) |-> locations[kept[k]]]

\* No figure is closed, as when plt.close('all') is left out.
close_none(figs) == figs

\* plt.close('all'): no figure stays open.
close_all(figs) == 0

\* np.arange(int(min(tick_locations)), int(max(tick_locations)) + 1)
integer_ticks(tick_locations) ==
    arange(int_of(SeqMin(tick_locations)), int_of(SeqMax(tick_locations)) + 1)

\* The ticks set in the end: thinned if not show_all_x_ticks and
\* tick_skip_slider > 1.
shown_ticks(locations, show_all_x_ticks, tick_skip_slider) ==
    IF ~show_all_x_ticks /\ tick_skip_slider > 1
    THEN thin(locations, tick_skip_slider)
    ELSE locations

\* generate_plot(plot_type, x_axis_selection, y_axis_selection, <eight
\* selections>, ..., heatmap_cmap_selector, ..., tilt_x_ticks, ...,
\* show_all_x_ticks, tick_skip_slider): what it returns ("placeholder",
\* "plot", or "error" when the plotting raises), the filtered view, whether
\* create_plot was called and what it built, the ticks read from the axis
\* and the ticks set, and the figures left open of the figs open before.
generate_plot(df, plot_type, x_axis_selection, y_axis_selection, selections, heatmap_cmap_selector, tilt_x_ticks, show_all_x_ticks, tick_skip_slider, figs) ==
    LET closed == close_all(figs)
        cleared == clf(closed)
        x_axis == IF x_axis_selection = "" THEN "program" ELSE x_axis_selection
        filtered == filter_data(df, selections)
        r == create_plot(plot_type, x_axis, y_axis_selection, filtered,
                         heatmap_cmap_selector, cleared)
        tick_locations == r.figure.xticks
        int_tick_locations == integer_ticks(tick_locations)
        shown == shown_ticks(int_tick_locations, show_all_x_ticks, tick_skip_slider)
    IN IF empty(filtered)
       THEN [output |-> "placeholder", filtered_data |-> filtered, called |-> FALSE,
             crosstab_data |-> NoCrosstab, figure |-> NoFigure,
             tick_locations |-> <<>>, int_tick_locations |-> <<>>, nfigs |-> cleared]
       ELSE IF r.raised \/ tick_locations = <<>>
       THEN [output |-> "error", filtered_data |-> filtered, called |-> TRUE,
             crosstab_data |-> r.crosstab_data, figure |-> NoFigure,
             tick_locations |-> <<>>, int_tick_locations |-> <<>>, nfigs |-> r.nfigs]
       ELSE [output |-> "plot", filtered_data |-> filtered, called |-> TRUE,
             crosstab_data |-> r.crosstab_data,
             figure |-> [r.figure EXCEPT !.xticks = [i \in 1..Len(shown) |-> 2 * shown[i]],
                                         !.rotation = IF tilt_x_ticks THEN 45 ELSE 0],
             tick_locations |-> tick_locations, int_tick_locations |-> shown,
             nfigs |-> r.nfigs]

(***************************************************************************)
(* The program state.                                                      *)
(*   pc             "new" (constructed), "loaded" (after load_syep),      *)
(*                  "ready" (prepared, no call in progress), "done" (a     *)
(*                  call has returned), "raised" (an exception ended the   *)
(*                  script), "exit" (main returned)                        *)
(*   syep           SYEP_API.syep, the Dataset                             *)
(*   op             the method or callback that ran last                   *)
(*   args           the eight filter arguments of the last call            *)
(*   filtered_data  the DataFrame filter_data returned, or the data passed *)
(*                  to create_plot                                         *)
(*   unique_values  the list a get_unique_* method returned                *)
(*   plot_args      the plot type, axes and colormap of the last plot call *)
(*   crosstab_data  the aggregate the last create_plot built               *)
(*   plot_figure    the figure the last create_plot returned               *)
(*   nfigs          the number of pyplot figures open                      *)
(*   output         what the last dashboard callback returned: "table",    *)
(*                  "plot", "placeholder" (the 'No data found' pane) or    *)
(*                  "error" (it raised); "none" outside the callbacks      *)
(*   created        whether the last generate_plot called create_plot      *)
(*   local          the DataFrame the last generate_table put in its table *)
(*   tick_locations the x ticks the last generate_plot read from the axis  *)
(*   int_tick_locations  the x ticks the last generate_plot set            *)
(*   visible        whether the landing page and the dashboard are shown   *)
(***************************************************************************)
VARIABLES pc, syep, op, args, filtered_data, unique_values,
          plot_args, crosstab_data, plot_figure, nfigs,
          output, created, local, tick_locations, int_tick_locations, visible

vars == <<pc, syep, op, args, filtered_data, unique_values,
          plot_args, crosstab_data, plot_figure, nfigs,
          output, created, local, tick_locations, int_tick_locations, visible>>

\* The state of the dashboard: what its callbacks leave behind, and what
\* is shown.
callback_vars == <<output, created, local, tick_locations, int_tick_locations, visible>>

\* show_dashboard(event) without its first line: the landing page stays.
show_dashboard_only(v) == [v EXCEPT !.dashboard = TRUE]

\* show_dashboard(event): landing_page_content.visible = False;
\* dashboard.visible = True
show_dashboard(v) == [v EXCEPT !.landing_page_content = FALSE, !.dashboard = TRUE]

\* The plot arguments of a call that plots nothing.
NoPlotArgs ==
    [plot_type |-> "none", x_axis |-> "", y_axis |-> "", heatmap_cmap |-> CmapName("Blues"),
     include_all_data |-> FALSE, show_all_x_ticks |-> TRUE, tick_skip_slider |-> 2,
     tilt_x_ticks |-> TRUE]

\* The values passed for the filter parameter under test, and for the
\* parameter after it.
ArgValues ==
    {None, List(<<>>), Scalar(Str(<<>>)), Scalar(Str(<<"a">>)), Scalar(Num(0)),
     Scalar(Num(10)), List(<<Str(<<"a">>), Str(<<>>)>>), List(<<Num(0), Num(10)>>)}

SecondValues == {None, Scalar(Str(<<"b">>))}

FilterPos(col) == CHOOSE i \in 1..Len(FilterColumns) : FilterColumns[i] = col

NextColumn(col) == FilterColumns[(FilterPos(col) % Len(FilterColumns)) + 1]

\* The axis selections tried: a varied column against a clean one, a clean
\* one against a varied one, and a column against itself.
AxisPairs ==
    {<<"gender", "race">>, <<"race", "hours_worked_per_week">>, <<"gender", "gender">>}

\* The axis selections tried over a CSV with the survey's full schema: two
\* columns adjacent in the allow-list, in either order, two that are apart,
\* and one of the allow-list against one outside it.
SurveyAxisPairs ==
    {<<"Demographics: Gender", "Demographics: Race">>,
     <<"Demographics: Race", "Demographics: Gender">>,
     <<"Demographics: Gender", "Program">>,
     <<"Demographics: Gender", "race">>}

\* The axis selections tried over a Dataset.
AxesOf(df) == IF InColumns(df, "Demographics: Gender") THEN SurveyAxisPairs ELSE AxisPairs

\* The colormap arguments tried: the default, another known name, an
\* unknown name, and a value that is no string.
CmapValues == {CmapName("Blues"), CmapName("viridis"), CmapName("nope"), NotAString}

\* The rows of df picked by the set of positions keep, in order.
TakeRows(df, keep) ==
    LET pos == SelectSeq([i \in 1..Len(df.rows) |-> i], LAMBDA i : i \in keep)
    IN [df EXCEPT !.rows = [k \in 1..Len(pos) |-> df.rows[pos[k]]]]

Init ==
    /\ pc = "new"
    /\ syep = NoFrame
    /\ op = "none"
    /\ args = NoArgs
    /\ filtered_data = NoFrame
    /\ unique_values = <<>>
    /\ plot_args = NoPlotArgs
    /\ crosstab_data = NoCrosstab
    /\ plot_figure = NoFigure
    /\ nfigs = 0
    /\ output = "none"
    /\ created = FALSE
    /\ local = NoTable
    /\ tick_locations = <<>>
    /\ int_tick_locations = <<>>
    /\ visible = [landing_page_content |-> TRUE, dashboard |-> FALSE]

\* api.load_syep(filename): the CSV has up to MaxRows rows; one column holds
\* arbitrary strings or arbitrary numbers, missing values included.
LoadSyep ==
    /\ pc = "new"
    /\ \E n \in 0..MaxRows, vc \in VaryColumns, cells \in {StrCells, NumCells} :
         \E pat \in [1..n -> cells] :
            syep' = read_csv(Columns, n, vc, pat)
    /\ pc' = "loaded"
    /\ op' = "load_syep"
    /\ UNCHANGED <<args, filtered_data, unique_values, plot_args, crosstab_data, plot_figure, nfigs,
                   callback_vars>>

\* api.load_syep(filename) for a CSV of up to MaxTicks rows in which every
\* row has a gender of its own, so that a chart over gender has as many
\* x positions as the CSV has rows.
LoadDistinct ==
    /\ pc = "new"
    /\ \E n \in 1..MaxTicks :
         syep' = read_csv(Columns, n, "gender", [i \in 1..n |-> Str(IntToStr(i))])
    /\ pc' = "loaded"
    /\ op' = "load_syep"
    /\ UNCHANGED <<args, filtered_data, unique_values, plot_args, crosstab_data, plot_figure, nfigs,
                   callback_vars>>

\* api.load_syep(filename) for a CSV with the survey's full schema, of up
\* to MaxRows rows; the column 'Demographics: Gender' holds arbitrary
\* strings, missing values included.
LoadSurvey ==
    /\ pc = "new"
    /\ \E n \in 0..MaxRows :
         \E pat \in [1..n -> StrCells] :
            syep' = read_csv(SurveyColumns, n, "Demographics: Gender", pat)
    /\ pc' = "loaded"
    /\ op' = "load_syep"
    /\ UNCHANGED <<args, filtered_data, unique_values, plot_args, crosstab_data, plot_figure, nfigs,
                   callback_vars>>

\* api.prepare_data(), once after the load.
PrepareData ==
    /\ pc = "loaded"
    /\ syep' = prepare_data(syep)
    /\ pc' = "done"
    /\ op' = "prepare_data"
    /\ UNCHANGED <<args, filtered_data, unique_values, plot_args, crosstab_data, plot_figure, nfigs,
                   callback_vars>>

\* api.prepare_data() called again on the prepared Dataset.
PrepareAgain ==
    /\ pc = "ready"
    /\ syep' = prepare_data(syep)
    /\ pc' = "done"
    /\ op' = "prepare_data"
    /\ UNCHANGED <<args, filtered_data, unique_values, plot_args, crosstab_data, plot_figure, nfigs,
                   callback_vars>>

\* api.filter_data(...)
FilterData ==
    /\ pc = "ready"
    /\ \E c1 \in FilterColumnSet, v1 \in ArgValues, v2 \in SecondValues :
         LET a == [col \in FilterColumnSet |->
                     IF col = c1 THEN v1
                     ELSE IF col = NextColumn(c1) THEN v2 ELSE None]
         IN /\ args' = a
            /\ filtered_data' = filter_data(syep, a)
    /\ pc' = "done"
    /\ op' = "filter_data"
    /\ UNCHANGED <<syep, unique_values, plot_args, crosstab_data, plot_figure, nfigs,
                   callback_vars>>

\* api.get_unique_genders() .. api.get_unique_daily_work()
GetUnique ==
    /\ pc = "ready"
    /\ \E col \in FilterColumnSet :
         /\ unique_values' = GetUniqueOf(syep, col)
         /\ op' = col
    /\ pc' = "done"
    /\ UNCHANGED <<syep, args, filtered_data, plot_args, crosstab_data, plot_figure, nfigs,
                   callback_vars>>

\* api.create_plot(plot_type, width, height, x_axis, y_axis, data, ...) as
\* main() calls it: data is a row subset of the Dataset, or is left out
\* (None) and defaults to the Dataset.
CreatePlot ==
    /\ pc = "ready"
    /\ \E plot_type \in PlotTypes, axes \in AxesOf(syep), heatmap_cmap \in CmapValues,
          keep \in SUBSET (1..Len(syep.rows)), given \in BOOLEAN :
         /\ given \/ keep = {}
         /\ plot_type # "Heatmap" => heatmap_cmap = CmapName("Blues")
         /\ \E data \in {IF given THEN TakeRows(syep, keep) ELSE syep} :
            \E r \in {create_plot(plot_type, axes[1], axes[2], data, heatmap_cmap, nfigs)} :
            /\ plot_args' = [NoPlotArgs EXCEPT !.plot_type = plot_type,
                                               !.x_axis = axes[1], !.y_axis = axes[2],
                                               !.heatmap_cmap = heatmap_cmap]
            /\ filtered_data' = data
            /\ crosstab_data' = r.crosstab_data
            /\ plot_figure' = r.figure
            /\ nfigs' = r.nfigs
            /\ pc' = IF r.raised THEN "raised" ELSE "done"
    /\ op' = "create_plot"
    /\ UNCHANGED <<syep, args, unique_values, callback_vars>>

\* plt.show() and the end of main().
Show ==
    /\ pc = "done"
    /\ op = "create_plot"
    /\ pc' = "exit"
    /\ UNCHANGED <<syep, op, args, filtered_data, unique_values, plot_args,
                   crosstab_data, plot_figure, nfigs, callback_vars>>

\* The caller is done with the result; derived values are discarded.
Return ==
    /\ pc = "done"
    /\ op # "create_plot"
    /\ pc' = "ready"
    /\ op' = "none"
    /\ args' = NoArgs
    /\ filtered_data' = NoFrame
    /\ unique_values' = <<>>
    /\ plot_args' = NoPlotArgs
    /\ crosstab_data' = NoCrosstab
    /\ plot_figure' = NoFigure
    /\ output' = "none"
    /\ created' = FALSE
    /\ local' = NoTable
    /\ tick_locations' = <<>>
    /\ int_tick_locations' = <<>>
    /\ UNCHANGED <<syep, nfigs, visible>>

\* The first n options of the filter widget of a column, selected: the
\* options are the strings the column's get_unique_* method returns.
Selected(df, col, n) ==
    LET options == GetUniqueOf(df, col)
        m == IF n < Len(options) THEN n ELSE Len(options)
    IN List([i \in 1..m |-> Str(options[i])])

\* No option selected in any filter widget (value = []).
NoSelections == [col \in FilterColumnSet |-> List(<<>>)]

\* The widget selections tried: none, one or two genders, one race, one
\* gender and one race, one value of hours worked.
Selections(df) ==
    {NoSelections,
     [NoSelections EXCEPT !["gender"] = Selected(df, "gender", 1)],
     [NoSelections EXCEPT !["gender"] = Selected(df, "gender", 2)],
     [NoSelections EXCEPT !["race"] = Selected(df, "race", 1)],
     [NoSelections EXCEPT !["gender"] = Selected(df, "gender", 1),
                          !["race"] = Selected(df, "race", 1)],
     [NoSelections EXCEPT !["hours_worked_per_week"] =
                              Selected(df, "hours_worked_per_week", 1)]}

\* The colormaps of heatmap_cmap_selector that are tried.
SelectorCmaps == {CmapName("Blues"), CmapName("viridis")}

\* The tick arguments as tried: show_all_x_ticks, tick_skip_slider (the
\* widget is an IntInput from 2 to 20; the callback takes any number),
\* tilt_x_ticks.
TickSettings ==
    {[show_all_x_ticks |-> TRUE, tick_skip_slider |-> 2, tilt_x_ticks |-> TRUE],
     [show_all_x_ticks |-> FALSE, tick_skip_slider |-> 2, tilt_x_ticks |-> TRUE],
     [show_all_x_ticks |-> FALSE, tick_skip_slider |-> 4, tilt_x_ticks |-> FALSE],
     [show_all_x_ticks |-> FALSE, tick_skip_slider |-> 1, tilt_x_ticks |-> FALSE]}

\* The bound callback generate_table runs with the current widget values.
\* With no predicate active the filtered view is the Dataset object itself,
\* so whatever the callback does to the one it does to the other.
GenerateTable ==
    /\ pc = "ready"
    /\ \E axes \in AxesOf(syep), selections \in Selections(syep), include_all \in BOOLEAN :
         \E r \in {generate_table(syep, axes[1], axes[2], selections, include_all)} :
            /\ args' = selections
            /\ plot_args' = [NoPlotArgs EXCEPT !.x_axis = axes[1], !.y_axis = axes[2],
                                               !.include_all_data = include_all]
            /\ filtered_data' = r.filtered_data
            /\ syep' = IF returns_syep(selections) THEN r.filtered_data ELSE syep
            /\ local' = r.local
            /\ output' = r.output
    /\ pc' = "done"
    /\ op' = "generate_table"
    /\ created' = FALSE
    /\ tick_locations' = <<>>
    /\ int_tick_locations' = <<>>
    /\ UNCHANGED <<unique_values, crosstab_data, plot_figure, nfigs, visible>>

\* The bound callback generate_plot runs with the current widget values.
GeneratePlot ==
    /\ pc = "ready"
    /\ \E plot_type \in PlotTypes, axes \in AxesOf(syep), selections \in Selections(syep),
          cmap \in SelectorCmaps, ticks \in TickSettings :
         /\ plot_type # "Heatmap" => cmap = CmapName("Blues")
         /\ \E r \in {generate_plot(syep, plot_type, axes[1], axes[2], selections, cmap,
                                     ticks.tilt_x_ticks, ticks.show_all_x_ticks,
                                     ticks.tick_skip_slider, nfigs)} :
            /\ args' = selections
            /\ plot_args' = [plot_type |-> plot_type, x_axis |-> axes[1],
                             y_axis |-> axes[2], heatmap_cmap |-> cmap,
                             include_all_data |-> FALSE,
                             show_all_x_ticks |-> ticks.show_all_x_ticks,
                             tick_skip_slider |-> ticks.tick_skip_slider,
                             tilt_x_ticks |-> ticks.tilt_x_ticks]
            /\ filtered_data' = r.filtered_data
            /\ crosstab_data' = r.crosstab_data
            /\ plot_figure' = r.figure
            /\ tick_locations' = r.tick_locations
            /\ int_tick_locations' = r.int_tick_locations
            /\ nfigs' = r.nfigs
            /\ created' = r.called
            /\ output' = r.output
    /\ pc' = "done"
    /\ op' = "generate_plot"
    /\ local' = NoTable
    /\ UNCHANGED <<syep, unique_values, visible>>

\* A click on 'Start Exploring' runs show_dashboard.
ShowDashboard ==
    /\ pc = "ready"
    /\ visible' = show_dashboard(visible)
    /\ UNCHANGED <<pc, syep, op, args, filtered_data, unique_values, plot_args,
                   crosstab_data, plot_figure, nfigs,
                   output, created, local, tick_locations, int_tick_locations>>

\* The script of syep_api.py: the API called as main() calls it.
Next ==
    \/ LoadSyep
    \/ PrepareData
    \/ PrepareAgain
    \/ FilterData
    \/ GetUnique
    \/ CreatePlot
    \/ Show
    \/ Return

\* The dashboard of syep_explorer.py: load and prepare at import, then the
\* callbacks as the widgets change and the click on the landing page's
\* button.
NextExplorer ==
    \/ LoadSyep
    \/ PrepareData
    \/ GenerateTable
    \/ GeneratePlot
    \/ ShowDashboard
    \/ Return

\* The dashboard over a CSV with many categories: load and prepare at
\* import, then generate_plot as the widgets change.
NextTicks ==
    \/ LoadDistinct
    \/ PrepareData
    \/ GeneratePlot
    \/ Return

\* The dashboard's table over a CSV with the survey's full schema.
NextSurvey ==
    \/ LoadSurvey
    \/ PrepareData
    \/ GenerateTable
    \/ Return

\* The API and the callbacks called in any order on one Dataset.
NextCalls ==
    \/ LoadSyep
    \/ PrepareData
    \/ FilterData
    \/ GetUnique
    \/ CreatePlot
    \/ Show
    \/ GenerateTable
    \/ GeneratePlot
    \/ Return

Spec == Init /\ [][Next]_vars

SpecExplorer == Init /\ [][NextExplorer]_vars

SpecTicks == Init /\ [][NextTicks]_vars

SpecSurvey == Init /\ [][NextSurvey]_vars

SpecCalls == Init /\ [][NextCalls]_vars

(***************************************************************************)
(* Properties of filter_data.                                              *)
(***************************************************************************)
RowSet(df) == {df.rows[i] : i \in 1..Len(df.rows)}

\* The argument record a with every parameter but c left out.
Only(a, c) == [col \in FilterColumnSet |-> IF col = c THEN a[col] ELSE None]

\* The parameters that were passed a value.
Passed(a) == {col \in FilterColumnSet : a[col] # None}

\* A predicate of one accepted value: a scalar or a one-element list.
SingleValue(v) == v.tag = "scalar" \/ (v.tag = "list" /\ Len(v.l) = 1)

\* None, an empty list or an empty string.
EmptyValue(v) ==
    \/ v.tag = "none"
    \/ v.tag = "list" /\ v.l = <<>>
    \/ v.tag = "scalar" /\ v.v = Str(<<>>)

FilterReturned == pc = "done" /\ op = "filter_data"

RECURSIVE IsSubsequence(_, _)
IsSubsequence(sub, seq) ==
    IF sub = <<>> THEN TRUE
    ELSE IF seq = <<>> THEN FALSE
    ELSE IF Head(sub) = Head(seq) THEN IsSubsequence(Tail(sub), Tail(seq))
    ELSE IsSubsequence(sub, Tail(seq))

\* C1: when filter_data is passed single-valued predicates on two different
\* columns, the rows it returns are exactly the rows returned for the first
\* predicate alone that are also returned for the second alone.
C1_Conjunctive ==
    FilterReturned =>
        \A c1, c2 \in FilterColumnSet :
            (c1 # c2 /\ Passed(args) = {c1, c2}
             /\ SingleValue(args[c1]) /\ SingleValue(args[c2]))
            => RowSet(filtered_data) =
                   RowSet(filter_data(syep, Only(args, c1)))
                   \cap RowSet(filter_data(syep, Only(args, c2)))

\* Two single-valued predicates, each of which alone drops a row, and a
\* row that passes both.
C1_Witness ==
    /\ FilterReturned
    /\ \E c1, c2 \in FilterColumnSet :
          /\ c1 # c2 /\ Passed(args) = {c1, c2}
          /\ SingleValue(args[c1]) /\ SingleValue(args[c2])
          /\ RowSet(filter_data(syep, Only(args, c1))) # RowSet(syep)
          /\ RowSet(filter_data(syep, Only(args, c2))) # RowSet(syep)
          /\ RowSet(filter_data(syep, Only(args, c1)))
                # RowSet(filter_data(syep, Only(args, c2)))
    /\ filtered_data.rows # <<>>

\* C2: filter_data with all eight arguments absent returns the Dataset: the
\* same columns and the same rows in the same order.
C2_NoPredicates ==
    (FilterReturned /\ args = NoArgs) => filtered_data = syep

C2_Witness ==
    FilterReturned /\ args = NoArgs /\ Len(syep.rows) >= 2

\* C3: for every filter column and every scalar v, filter_data(column=v)
\* returns the same rows as filter_data(column=[v]).
C3_ScalarAsSingleton ==
    FilterReturned =>
        \A c \in FilterColumnSet :
            args[c].tag = "scalar"
            => filtered_data =
                   filter_data(syep, [args EXCEPT ![c] = List(<<args[c].v>>)])

\* C4: passing None, an empty list or an empty string for a column returns
\* the same view as leaving that column out, whatever the other arguments.
C4_EmptyIsNoRestriction ==
    FilterReturned =>
        \A c \in FilterColumnSet :
            EmptyValue(args[c])
            => filtered_data = filter_data(syep, [args EXCEPT ![c] = None])

\* An empty list for one column beside an active predicate on another that
\* keeps some rows and drops others.
C4_Witness ==
    /\ FilterReturned
    /\ \E c, c2 \in FilterColumnSet :
          /\ args[c] = List(<<>>)
          /\ c2 # c /\ Truthy(args[c2])
    /\ filtered_data.rows # <<>>
    /\ Len(filtered_data.rows) < Len(syep.rows)

\* C5: for a column filtered by a list of two or more values, a row of the
\* view filtered by the other arguments is returned iff its value is in the
\* list; the result is the union of the results for each value alone.
C5_MembershipWithinColumn ==
    FilterReturned =>
        \A c \in FilterColumnSet :
            (args[c].tag = "list" /\ Len(args[c].l) >= 2)
            => LET l == args[c].l
                   rest == filter_data(syep, [args EXCEPT ![c] = None])
               IN /\ RowSet(filtered_data) =
                       UNION {RowSet(filter_data(syep, [args EXCEPT ![c] = List(<<l[i]>>)]))
                                : i \in 1..Len(l)}
                  /\ \A r \in RowSet(rest) :
                        r \in RowSet(filtered_data) <=> \E i \in 1..Len(l) : l[i] = r.c[c]
                  /\ RowSet(filtered_data) \subseteq RowSet(rest)

\* A list of two values, each matching a row of its own, and a third row
\* whose value is outside the list.
C5_Witness ==
    /\ FilterReturned
    /\ \E c \in FilterColumnSet :
          /\ args[c].tag = "list" /\ Len(args[c].l) = 2
          /\ \E r1, r2 \in RowSet(filtered_data) :
                r1.c[c] = args[c].l[1] /\ r2.c[c] = args[c].l[2] /\ r1 # r2
    /\ Len(filtered_data.rows) < Len(syep.rows)

\* C6: for every combination of predicates the result has the Dataset's
\* column list and its rows are a subsequence of the Dataset's rows.
C6_OrderAndColumns ==
    FilterReturned =>
        /\ filtered_data.columns = syep.columns
        /\ IsSubsequence(filtered_data.rows, syep.rows)

\* A predicate that drops one of three rows and keeps two.
C6_Witness ==
    /\ FilterReturned
    /\ Len(syep.rows) = 3
    /\ Len(filtered_data.rows) = 2
    /\ Passed(args) # {}

(***************************************************************************)
(* Properties of prepare_data and of the get_unique_* methods.             *)
(***************************************************************************)
NoEdgeWhitespace(s) ==
    s = <<>> \/ (Head(s) \notin Whitespace /\ s[Len(s)] \notin Whitespace)

CellsOf(df) == {df.rows[i].c[col] : i \in 1..Len(df.rows), col \in ColumnSet}

\* C9: a prepare_data step leaves the shape of the Dataset and every
\* non-string cell unchanged and leaves every string cell without leading or
\* trailing whitespace; applied to an already prepared Dataset it changes
\* nothing.
C9_NormalizeIdempotent ==
    [][(op' = "prepare_data" /\ pc' = "done") =>
         /\ syep'.columns = syep.columns
         /\ Len(syep'.rows) = Len(syep.rows)
         /\ \A i \in 1..Len(syep.rows) :
               /\ syep'.rows[i].idx = syep.rows[i].idx
               /\ \A col \in ColumnSet :
                     LET x == syep.rows[i].c[col]
                         y == syep'.rows[i].c[col]
                     IN IF x.kind = "str"
                        THEN y.kind = "str" /\ NoEdgeWhitespace(y.s)
                        ELSE y = x
         /\ (pc = "ready" => syep' = syep)]_vars

\* prepare_data has run on a Dataset with a whitespace-only cell (now the
\* empty string), another string cell and a missing or numeric cell.
C9_Witness ==
    /\ pc = "done" /\ op = "prepare_data"
    /\ Str(<<>>) \in CellsOf(syep)
    /\ Str(<<"a">>) \in CellsOf(syep)
    /\ \E x \in CellsOf(syep) : x.kind # "str"

\* C10: the list a get_unique_* method returns holds exactly the string
\* forms of the non-missing values of its column, none of them the form of a
\* missing value, without duplicates and in ascending order; it is the list
\* the method returns for this Dataset on any call.
C10_DistinctValues ==
    (pc = "done" /\ op \in FilterColumnSet) =>
        LET present == {x \in {syep.rows[i].c[op] : i \in 1..Len(syep.rows)} : ~isna(x)}
            forms == {astype_str(x, dtype(syep, op)) : x \in present}
            n == Len(unique_values)
        IN /\ {unique_values[i] : i \in 1..n} = forms
           /\ astype_str(NaN, dtype(syep, op)) \notin {unique_values[i] : i \in 1..n}
           /\ n = Cardinality(forms)
           /\ \A i \in 1..(n - 1) : StrLess(unique_values[i], unique_values[i + 1])
           /\ unique_values = GetUniqueOf(syep, op)

\* A column with a missing value and two distinct values that appear in
\* descending order.
C10_Witness ==
    /\ pc = "done" /\ op \in FilterColumnSet
    /\ Len(unique_values) = 2
    /\ \E i \in 1..Len(syep.rows) : isna(syep.rows[i].c[op])
    /\ \E i, j \in 1..Len(syep.rows) :
          /\ i < j
          /\ syep.rows[i].c[op].kind = "str" /\ syep.rows[j].c[op].kind = "str"
          /\ StrLess(syep.rows[j].c[op].s, syep.rows[i].c[op].s)

(***************************************************************************)
(* Properties of the dashboard callbacks.                                  *)
(***************************************************************************)
CallbackReturned == pc = "done" /\ op \in {"generate_table", "generate_plot"}

\* C7: whenever filter_data returns an empty view for the selections,
\* generate_table and generate_plot return the 'No data found' placeholder,
\* no table is built, create_plot is not called and no chart is built.
C7_EmptyViewGivesPlaceholder ==
    (CallbackReturned /\ filter_data(syep, args).rows = <<>>) =>
        /\ output = "placeholder"
        /\ local = NoTable
        /\ created = FALSE
        /\ plot_figure = NoFigure
        /\ crosstab_data = NoCrosstab

\* generate_plot has run on a Dataset with rows and selections that no row
\* satisfies.
C7_Witness ==
    /\ CallbackReturned
    /\ op = "generate_plot"
    /\ syep.rows # <<>>
    /\ filtered_data.rows = <<>>
    /\ \E col \in FilterColumnSet : args[col].tag = "list" /\ args[col].l # <<>>

(***************************************************************************)
(* Properties of create_plot.                                              *)
(***************************************************************************)
RECURSIVE SumOver(_, _)
SumOver(f, S) ==
    IF S = {} THEN 0
    ELSE LET p == CHOOSE q \in S : TRUE
         IN f[p] + SumOver(f, S \ {p})

\* The sum of all counts of a cross-tabulation.
Total(ct) == SumOver(ct.count, DOMAIN ct.count)

\* create_plot has built a Chart Aggregate from filtered_data.
AggregateBuilt ==
    /\ op = "create_plot"
    /\ plot_args.plot_type \in {"Stacked Bar Plot", "Heatmap"}

\* The rows of df with a value in both columns.
Complete(df, x_axis, y_axis) ==
    SelectSeq(df.rows, LAMBDA r : ~isna(r.c[x_axis]) /\ ~isna(r.c[y_axis]))

\* C8 as stated: the counts of the Chart Aggregate sum to the number of rows
\* of the subset it was built from.
C8_CountsSumToRows ==
    AggregateBuilt => Total(crosstab_data) = Len(filtered_data.rows)

\* C8 as amended: the counts of the Chart Aggregate sum to the number of
\* rows of the subset that have a value in both axis columns.
C8_CountsSumToCompleteRows ==
    AggregateBuilt =>
        LET rows == Complete(filtered_data, plot_args.x_axis, plot_args.y_axis)
        IN Total(crosstab_data) = Len(rows)

\* An aggregate over a subset in which one row lacks an axis value and two
\* rows share a pair of values.
C8_Witness ==
    /\ AggregateBuilt
    /\ pc = "done"
    /\ Len(Complete(filtered_data, plot_args.x_axis, plot_args.y_axis))
          < Len(filtered_data.rows)
    /\ \E p \in DOMAIN crosstab_data.count : crosstab_data.count[p] >= 2

\* create_plot was asked for a heatmap of data that has a value in both
\* axis columns in some row.
HeatmapAsked ==
    /\ op = "create_plot"
    /\ plot_args.plot_type = "Heatmap"
    /\ Complete(filtered_data, plot_args.x_axis, plot_args.y_axis) # <<>>

\* C12: a heatmap is drawn with the given colormap name when that is a
\* string among the known colormaps, and with 'Blues' for every other
\* name and every value that is no string; no error comes of the name.
C12_ColormapFallback ==
    HeatmapAsked =>
        /\ pc # "raised"
        /\ (plot_args.heatmap_cmap.isstr /\ plot_args.heatmap_cmap.name \in KnownColormaps)
              => plot_figure.cmap = plot_args.heatmap_cmap.name
        /\ ~(plot_args.heatmap_cmap.isstr /\ plot_args.heatmap_cmap.name \in KnownColormaps)
              => plot_figure.cmap = "Blues"

\* A heatmap asked for with an unknown colormap name and drawn in 'Blues'.
C12_Witness ==
    /\ HeatmapAsked
    /\ pc = "done"
    /\ plot_args.heatmap_cmap = CmapName("nope")
    /\ plot_figure.plot_type = "Heatmap"
    /\ plot_figure.cmap = "Blues"

(***************************************************************************)
(* Properties of the tick handling of generate_plot.                       *)
(***************************************************************************)
\* generate_plot has returned a chart.
PlotReturned == pc = "done" /\ op = "generate_plot" /\ output = "plot"

\* The largest integer not above a location given in half units.
Floor(t) == CHOOSE n \in 0..t : 2 * n <= t /\ t < 2 * (n + 1)

\* The integers from the floor of the least to the floor of the greatest
\* location, in ascending order.
FullTickSet(locations) ==
    LET lo == Floor(SeqMin(locations))
        hi == Floor(SeqMax(locations))
    IN [i \in 1..(hi - lo + 1) |-> lo + (i - 1)]

\* The entries of seq at the indices 0, n, 2n, ... (counted from 0).
EveryNth(seq, n) ==
    [k \in 1..((Len(seq) + n - 1) \div n) |-> seq[(k - 1) * n + 1]]

\* C11: when 'show all ticks' is false and the skip count N is greater than
\* 1, the ticks generate_plot sets are the integer tick locations at the
\* indices 0, N, 2N, ...; when 'show all ticks' is true or N is not
\* greater than 1, they are all the integer tick locations.
C11_TickThinning ==
    PlotReturned =>
        LET full == FullTickSet(tick_locations)
        IN IF ~plot_args.show_all_x_ticks /\ plot_args.tick_skip_slider > 1
           THEN int_tick_locations = EveryNth(full, plot_args.tick_skip_slider)
           ELSE int_tick_locations = full

\* N = 4 with 20 integer tick locations leaves exactly 5.
C11_Witness ==
    /\ PlotReturned
    /\ ~plot_args.show_all_x_ticks
    /\ plot_args.tick_skip_slider = 4
    /\ Len(FullTickSet(tick_locations)) = 20
    /\ Len(int_tick_locations) = 5
    /\ int_tick_locations = <<0, 4, 8, 12, 16>>

(***************************************************************************)
(* Properties of generate_table.                                           *)
(***************************************************************************)
\* generate_table has returned a table.
TableReturned == pc = "done" /\ op = "generate_table" /\ output = "table"

\* The entries of seq as a set.
Range(seq) == {seq[i] : i \in 1..Len(seq)}

\* The columns of the table after the two chosen ones.
Appended(t) == SubSeq(t.columns, 3, Len(t.columns))

\* C13: with 'include all data' checked, the columns generate_table appends
\* are the allow-list without the chosen x and y columns: neither x nor y
\* is among them and every other allow-list entry is.
C13_AllowListMinusAxes ==
    (TableReturned /\ plot_args.include_all_data) =>
        /\ plot_args.x_axis \notin Range(Appended(local))
        /\ plot_args.y_axis \notin Range(Appended(local))
        /\ \A col \in Range(additional_columns) \ {plot_args.x_axis, plot_args.y_axis} :
              col \in Range(Appended(local))

\* C14: in the table generate_table renders no row has a missing value in
\* the chosen x or y column (the first two columns of the table), with
\* 'include all data' unchecked and with it checked.
C14_NoMissingInTable ==
    TableReturned =>
        \A i \in 1..Len(local.rows) :
            ~isna(local.rows[i].cells[1]) /\ ~isna(local.rows[i].cells[2])

\* C18: generate_table never renders an empty table: a table it returns
\* has at least one row, also when every row of the filtered view has a
\* missing value in the chosen x or y column.
C18_TableNeverEmpty ==
    TableReturned => local.rows # <<>>

(***************************************************************************)
(* Properties of the filter widgets' options.                              *)
(***************************************************************************)
\* The one option selected in the filter widgets, as <<column, option>>,
\* when exactly one option of one widget is selected.
OneOptionSelected(a) ==
    /\ \A col \in FilterColumnSet : a[col].tag = "list"
    /\ \E col \in FilterColumnSet :
          /\ Len(a[col].l) = 1
          /\ \A other \in FilterColumnSet \ {col} : a[other].l = <<>>

\* C17: every option a filter widget offers selects at least one row: with
\* one value of a column's get_unique_* list selected and nothing else,
\* the filtered view is not empty, whether the column holds strings or
\* numbers.
C17_EveryOptionSelectsARow ==
    (CallbackReturned /\ OneOptionSelected(args)) => filtered_data.rows # <<>>

(***************************************************************************)
(* Properties of the figures generate_plot opens.                          *)
(***************************************************************************)
\* C16: however many times generate_plot has run, with whatever chart kinds
\* and whether or not a run ended in the placeholder, at most three
\* figures are open: the figures of the earlier runs are closed at the
\* start of each run, and one run opens at most three.
C16_FiguresBounded == nfigs <= 3

\* A stacked bar plot rendered, with the three figures of that run open:
\* the one plt.clf() opened, the one create_plot opened and the one the
\* bar plot drew itself.
C16_Witness ==
    /\ PlotReturned
    /\ plot_args.plot_type = "Stacked Bar Plot"
    /\ nfigs = 3

(***************************************************************************)
(* Properties of the Dataset as shared state.                              *)
(***************************************************************************)
\* C15: once loaded and normalized, the Dataset is not modified by any call
\* of filter_data, create_plot, a get_unique_* method, generate_table or
\* generate_plot: api.syep has the same rows, columns and cells after the
\* call as before it.
C15_DatasetNeverModified ==
    [][pc \notin {"new", "loaded"} => syep' = syep]_vars

\* generate_table has built a table from the Dataset object itself (no
\* predicate active), leaving out a row with a missing x value, and the
\* Dataset still has that row.
C15_Witness ==
    /\ TableReturned
    /\ returns_syep(args)
    /\ Len(local.rows) < Len(syep.rows)
    /\ \E i \in 1..Len(syep.rows) : isna(syep.rows[i].c[plot_args.x_axis])
    /\ filtered_data = syep

(***************************************************************************)
(* Properties of the landing page.                                         *)
(***************************************************************************)
\* C19: the landing page and the dashboard are never visible together; at
\* first the landing page alone is visible; a click on 'Start Exploring'
\* hides the landing page and shows the dashboard; once the dashboard is
\* shown, no click and no widget change hides it or shows the landing
\* page again.
C19_LandingThenDashboard ==
    /\ visible.landing_page_content /\ ~visible.dashboard
    /\ [](~(visible.landing_page_content /\ visible.dashboard))
    /\ [][(visible' # visible /\ visible.landing_page_content)
            => (~visible'.landing_page_content /\ visible'.dashboard)]_vars
    /\ [][visible.dashboard
            => (visible'.dashboard /\ ~visible'.landing_page_content)]_vars

\* The dashboard is shown, the landing page is hidden, and a callback has
\* run after the click.
C19_Witness ==
    /\ visible.dashboard
    /\ ~visible.landing_page_content
    /\ CallbackReturned

====
